---- MODULE Spec2Model ----
(***************************************************************************)
(* Simulation kernel of the sovereign debt sustainability dashboard        *)
(* (src/src/App.jsx): the reference tables, the Monte Carlo debt           *)
(* recursion of simulateDebtPath with its percentile aggregation, and the  *)
(* debt-stabilizing primary balance.                                       *)
(*                                                                         *)
(* Numbers.  The JavaScript code computes in IEEE doubles.  Here every     *)
(* quantity the code keeps in percent (debt/GDP, growth, inflation,        *)
(* primary balance, rates, volatilities) is an integer count of            *)
(* thousandths of a percentage point, so 87.6 is 87600, and a fraction     *)
(* such as 1 + r is scaled by One = 100000.  Divisions round down.  The    *)
(* projection points the code rounds to one decimal are integers in        *)
(* tenths, so 88.9 is 889.  A draw of randn() is an integer in hundredths. *)
(* NaN stands for a JavaScript NaN or undefined in a numeric slot.         *)
(***************************************************************************)
EXTENDS Integers, Sequences, FiniteSets, TLC

Milli == 10 * 100
One == 100 * Milli
NaN == -(2^30)

Min(a, b) == IF a < b THEN a ELSE b
Max(a, b) == IF a > b THEN a ELSE b

(***************************************************************************)
(* Reference tables                                                        *)
(***************************************************************************)
COUNTRY_DATA == [
    united_states |-> [category |-> "developed", debt2024 |-> 124000, growth |-> 2800, inflation |-> 2900, pb |-> -5800],
    japan |-> [category |-> "japan_special", debt2024 |-> 251800, growth |-> 300, inflation |-> 2500, pb |-> -3800],
    germany |-> [category |-> "developed", debt2024 |-> 63000, growth |-> 0, inflation |-> 2500, pb |-> -1200],
    united_kingdom |-> [category |-> "developed", debt2024 |-> 104300, growth |-> 1100, inflation |-> 2600, pb |-> -2000],
    france |-> [category |-> "developed", debt2024 |-> 112000, growth |-> 1100, inflation |-> 2400, pb |-> -3800],
    italy |-> [category |-> "developed", debt2024 |-> 139000, growth |-> 700, inflation |-> 1300, pb |-> 200],
    spain |-> [category |-> "developed", debt2024 |-> 105500, growth |-> 2900, inflation |-> 2900, pb |-> -600],
    greece |-> [category |-> "developed", debt2024 |-> 153900, growth |-> 2300, inflation |-> 3000, pb |-> 1500],
    china |-> [category |-> "em_ig", debt2024 |-> 79400, growth |-> 4800, inflation |-> 400, pb |-> -6200],
    brazil |-> [category |-> "em_ig", debt2024 |-> 87600, growth |-> 3000, inflation |-> 4400, pb |-> -400],
    mexico |-> [category |-> "em_ig", debt2024 |-> 54700, growth |-> 1500, inflation |-> 4500, pb |-> -1200],
    india |-> [category |-> "em_ig", debt2024 |-> 83100, growth |-> 7000, inflation |-> 4600, pb |-> -3500],
    indonesia |-> [category |-> "em_ig", debt2024 |-> 39200, growth |-> 5000, inflation |-> 2800, pb |-> -1400],
    poland |-> [category |-> "em_ig", debt2024 |-> 54000, growth |-> 3000, inflation |-> 4000, pb |-> -3500],
    chile |-> [category |-> "em_ig", debt2024 |-> 41200, growth |-> 2500, inflation |-> 4000, pb |-> -1800],
    thailand |-> [category |-> "em_ig", debt2024 |-> 64200, growth |-> 2800, inflation |-> 500, pb |-> -2800],
    malaysia |-> [category |-> "em_ig", debt2024 |-> 65000, growth |-> 4400, inflation |-> 2500, pb |-> -2500],
    peru |-> [category |-> "em_ig", debt2024 |-> 32800, growth |-> 3000, inflation |-> 2500, pb |-> -2000],
    turkey |-> [category |-> "em_hy", debt2024 |-> 28800, growth |-> 3000, inflation |-> 58900, pb |-> -3500],
    south_africa |-> [category |-> "em_hy", debt2024 |-> 74700, growth |-> 1100, inflation |-> 4900, pb |-> -2000],
    argentina |-> [category |-> "em_hy", debt2024 |-> 93400, growth |-> -3500, inflation |-> 249800, pb |-> -500],
    egypt |-> [category |-> "em_hy", debt2024 |-> 89500, growth |-> 2700, inflation |-> 32500, pb |-> 2500],
    nigeria |-> [category |-> "em_hy", debt2024 |-> 50800, growth |-> 3300, inflation |-> 26300, pb |-> -3800],
    vietnam |-> [category |-> "frontier", debt2024 |-> 55500, growth |-> 6100, inflation |-> 4000, pb |-> -2500],
    kenya |-> [category |-> "frontier", debt2024 |-> 72000, growth |-> 5000, inflation |-> 6500, pb |-> -3500],
    ghana |-> [category |-> "frontier", debt2024 |-> 85000, growth |-> 2800, inflation |-> 23000, pb |-> 500],
    bangladesh |-> [category |-> "frontier", debt2024 |-> 44000, growth |-> 5500, inflation |-> 10000, pb |-> -4000],
    morocco |-> [category |-> "frontier", debt2024 |-> 69000, growth |-> 3500, inflation |-> 2500, pb |-> -2800]
]

REGIME_PARAMS == [
    developed |-> [thresholds |-> <<90000, 120000>>, baseRates |-> <<1500, 2500, 4000>>,
                   rateSens |-> <<17, 25, 40>>, growthAdj |-> <<100, 0, -200>>],
    japan_special |-> [thresholds |-> <<200000, 270000>>, baseRates |-> <<500, 1000, 2000>>,
                   rateSens |-> <<2, 5, 10>>, growthAdj |-> <<100, 0, -100>>],
    em_ig |-> [thresholds |-> <<55000, 70000>>, baseRates |-> <<3000, 4500, 7000>>,
                   rateSens |-> <<20, 30, 50>>, growthAdj |-> <<200, 0, -300>>],
    em_hy |-> [thresholds |-> <<40000, 55000>>, baseRates |-> <<5000, 8000, 12000>>,
                   rateSens |-> <<30, 50, 80>>, growthAdj |-> <<250, 0, -500>>],
    frontier |-> [thresholds |-> <<35000, 55000>>, baseRates |-> <<6000, 9000, 13000>>,
                   rateSens |-> <<40, 60, 100>>, growthAdj |-> <<250, 0, -500>>]]

REFORMS == [
    none |-> [pbImprove |-> 0, growthBoost |-> 0, rateReduction |-> 0],
    mild |-> [pbImprove |-> 750, growthBoost |-> 150, rateReduction |-> 500],
    moderate |-> [pbImprove |-> 1500, growthBoost |-> 0, rateReduction |-> 1000],
    aggressive |-> [pbImprove |-> 2500, growthBoost |-> -200, rateReduction |-> 1500]]

\* The volatility table without its frontier entry.
volatility_NoFrontier == [
    developed |-> [growth |-> 1800, inflation |-> 1200, pb |-> 1500],
    japan_special |-> [growth |-> 2000, inflation |-> 800, pb |-> 1200],
    em_ig |-> [growth |-> 2800, inflation |-> 2500, pb |-> 1800],
    em_hy |-> [growth |-> 3500, inflation |-> 6000, pb |-> 2200]]

\* The volatility table local to simulateDebtPath.
volatility == [
    developed |-> [growth |-> 1800, inflation |-> 1200, pb |-> 1500],
    japan_special |-> [growth |-> 2000, inflation |-> 800, pb |-> 1200],
    em_ig |-> [growth |-> 2800, inflation |-> 2500, pb |-> 1800],
    em_hy |-> [growth |-> 3500, inflation |-> 6000, pb |-> 2200],
    frontier |-> [growth |-> 3200, inflation |-> 5000, pb |-> 2000]]

(***************************************************************************)
(* Property lookup table[key] on a plain JavaScript object: an own key     *)
(* gives its entry, a key of Object.prototype gives an inherited member    *)
(* (a truthy value with none of the entry's fields), any other key gives   *)
(* undefined.                                                              *)
(***************************************************************************)
ObjectPrototypeKeys == {"constructor", "toString", "valueOf", "hasOwnProperty",
                        "isPrototypeOf", "propertyIsEnumerable", "toLocaleString",
                        "__proto__"}

Lookup(table, key) ==
    IF key \in DOMAIN table THEN "own"
    ELSE IF key \in ObjectPrototypeKeys THEN "inherited"
    ELSE "undefined"

(***************************************************************************)
(* Arithmetic of the recursion                                             *)
(***************************************************************************)
\* floor(a * b / c) for b >= 0 and c > 0, split so that no intermediate
\* product leaves the 32-bit range.
MulDiv(a, b, c) ==
    LET bh == b \div 1000
        bl == b % 1000
        P == a * bh
        Q == a * bl
    IN 1000 * (P \div c) + (1000 * (P % c) + Q) \div c

\* base * 0.7 + prev * 0.3 + randn() * sigma
MeanRevert(base, prev, z, sigma) ==
    (base * 7 + prev * 3) \div 10 + (z * sigma) \div 100

\* The rule with closed upper ends (<= for <).
Regime_Closed(d, thresholds) ==
    IF d # NaN /\ d <= thresholds[1] THEN 0
    ELSE IF d # NaN /\ d <= thresholds[2] THEN 1
    ELSE 2

\* debt < thresholds[0] ? 0 : debt < thresholds[1] ? 1 : 2  (a NaN compares false)
Regime(d, thresholds) ==
    IF d # NaN /\ d < thresholds[1] THEN 0
    ELSE IF d # NaN /\ d < thresholds[2] THEN 1
    ELSE 2

\* The phase-in with the improvement added to the year instead of scaled by it.
reformEffect_Sum(ref, t) == (ref.pbImprove + Min(t, 7) * 1000) \div 7

\* The phase-in without its cap at seven years.
reformEffect_NoCap(ref, t) == (ref.pbImprove * t) \div 7

\* ref.pbImprove * Math.min(t, 7) / 7
reformEffect(ref, t) == (ref.pbImprove * Min(t, 7)) \div 7

\* The reform effect taken off the balance instead of added to it.
adjustedPb_Minus(ref, t, regime, p) ==
    p - reformEffect(ref, t) + (IF regime = 2 THEN 300 ELSE 0)

\* pb + reformEffect + (regime === 2 ? 0.3 : 0), in percent (the code's /100
\* and the recursion's *100 cancel)
adjustedPb(ref, t, regime, p) ==
    p + reformEffect(ref, t) + (IF regime = 2 THEN 300 ELSE 0)

\* params.baseRates[regime] - ref.rateReduction * Math.min(t, 4) / 4
baseR(params, ref, t, regime) ==
    params.baseRates[regime + 1] - (ref.rateReduction * Min(t, 4)) \div 4

\* The premium counted from the high threshold t1 instead of t0.
ratePremium_FromT1(params, regime, d) ==
    Max(0, ((d - params.thresholds[2]) * params.rateSens[regime + 1]) \div 1000)

\* Math.max(0, (debt - thresholds[0]) * rateSens[regime])
ratePremium(params, regime, d) ==
    Max(0, ((d - params.thresholds[1]) * params.rateSens[regime + 1]) \div 1000)

\* The rate without its floor.
InterestRate_NoFloor(params, ref, t, regime, d) ==
    baseR(params, ref, t, regime) + ratePremium(params, regime, d)

\* r = Math.max(0.015, (baseR + premium) / 100), in percent
InterestRate(params, ref, t, regime, d) ==
    Max(1500, baseR(params, ref, t, regime) + ratePremium(params, regime, d))

\* g_real, in percent
RealGrowth(params, ref, regime, g) ==
    g + params.growthAdj[regime + 1] + ref.growthBoost

\* 1 + g_nom = (1 + g_real) * (1 + inflation / 100), scaled by One
NominalGrowthFactor(params, ref, regime, g, i) ==
    MulDiv(One + RealGrowth(params, ref, regime, g), One + i, One)

\* The clamp without its ceiling.
ClampDebt_NoCeiling(x) == Max(0, x)

\* Math.max(0, Math.min(300, x))
ClampDebt(x) == Max(0, Min(300000, x))

\* Math.max(0, Math.min(300, (debt / 100 * (1 + r) / (1 + g_nom) - adjustedPb) * 100)).
\* A zero denominator gives Infinity (clamped to 300) or, for a zero debt,
\* 0/0 = NaN, which both Math.min and Math.max hand through.
DebtDynamics(d, r, onePlusG, adjPb) ==
    IF onePlusG > 0 THEN ClampDebt(MulDiv(d, One + r, onePlusG) - adjPb)
    ELSE IF onePlusG = 0 THEN (IF d = 0 THEN NaN ELSE 300000)
    ELSE ClampDebt(0 - MulDiv(d, One + r, 0 - onePlusG) - adjPb)

\* The year computed twice: once from the prior-year debt, then again with
\* the regime and the premium taken from the debt just computed.
NextDebt_FromNewDebt(data, ref, t, d, g, i, p) ==
    LET params == REGIME_PARAMS[data.category]
        regime0 == Regime(d, params.thresholds)
        d1 == DebtDynamics(d,
                           InterestRate(params, ref, t, regime0, d),
                           NominalGrowthFactor(params, ref, regime0, g, i),
                           adjustedPb(ref, t, regime0, p))
        regime == Regime(d1, params.thresholds)
    IN DebtDynamics(d,
                    InterestRate(params, ref, t, regime, d1),
                    NominalGrowthFactor(params, ref, regime, g, i),
                    adjustedPb(ref, t, regime, p))

\* One year of the recursion for a known country and reform: the debt pushed
\* on the path, from the prior-year debt and the year's macro values.
NextDebt(data, ref, t, d, g, i, p) ==
    LET params == REGIME_PARAMS[data.category]
        regime == Regime(d, params.thresholds)
    IN DebtDynamics(d,
                    InterestRate(params, ref, t, regime, d),
                    NominalGrowthFactor(params, ref, regime, g, i),
                    adjustedPb(ref, t, regime, p))

\* The macro step with inflation left unfloored.
MacroStep_NoFloor(data, g, i, p, z) ==
    LET vol == volatility[data.category]
    IN [growth |-> MeanRevert(data.growth, g, z[1], vol.growth),
        inflation |-> MeanRevert(data.inflation, i, z[2], vol.inflation),
        pb |-> MeanRevert(data.pb, p, z[3], vol.pb)]

\* Lines 175-177: the mean-reverting macro variables of the year, from last
\* year's and the three draws z = <<growth, inflation, pb>>.
MacroStep(data, g, i, p, z) ==
    LET vol == volatility[data.category]
    IN [growth |-> MeanRevert(data.growth, g, z[1], vol.growth),
        inflation |-> Max(0, MeanRevert(data.inflation, i, z[2], vol.inflation)),
        pb |-> MeanRevert(data.pb, p, z[3], vol.pb)]

\* Lines 165-197 as a function of the trial's draws: the path of one trial of
\* a known country under a known reform, stream[t] being year t's draws.
RECURSIVE ExtendPath(_, _, _, _, _, _)
ExtendPath(data, ref, yrs, stream, tt, st) ==
    IF tt > yrs THEN st.path
    ELSE LET m == MacroStep(data, st.growth, st.inflation, st.pb, stream[tt])
             d == NextDebt(data, ref, tt, st.debt, m.growth, m.inflation, m.pb)
         IN ExtendPath(data, ref, yrs, stream, tt + 1,
                       [debt |-> d, growth |-> m.growth, inflation |-> m.inflation,
                        pb |-> m.pb, path |-> Append(st.path, d)])

TrialPath(c, r, yrs, stream) ==
    LET data == COUNTRY_DATA[c]
    IN ExtendPath(data, REFORMS[r], yrs, stream, 1,
                  [debt |-> data.debt2024, growth |-> data.growth,
                   inflation |-> data.inflation, pb |-> data.pb,
                   path |-> <<data.debt2024>>])

(***************************************************************************)
(* Percentile aggregation                                                  *)
(***************************************************************************)
RECURSIVE Insert(_, _)
Insert(s, x) ==
    IF s = <<>> THEN <<x>>
    ELSE IF x < Head(s) THEN <<x>> \o s
    ELSE <<Head(s)>> \o Insert(Tail(s), x)

\* The values left in trial order.
SortAscending_Unsorted(s) == s

\* values.sort((a, b) => a - b)
RECURSIVE SortAscending(_)
SortAscending(s) ==
    IF s = <<>> THEN <<>> ELSE Insert(SortAscending(Tail(s)), Head(s))

\* allPaths.map(p => p[t])
Column(paths, year) ==
    [k \in 1..Len(paths) |->
        IF year + 1 \in DOMAIN paths[k] THEN paths[k][year + 1] ELSE NaN]

\* The index rounded to the nearest rank instead of floored.
percentileIndex_Rounded(n, p) == (p * (n - 1) + 50) \div 100

\* Math.floor(p / 100 * (values.length - 1))
percentileIndex(n, p) == (p * (n - 1)) \div 100

\* values[index]; an index outside the array gives undefined
percentile(values, p) ==
    LET idx == percentileIndex(Len(values), p)
    IN IF idx + 1 \in DOMAIN values THEN values[idx + 1] ELSE NaN

\* Math.round(x * 10) / 10, in tenths
Round1(v) == IF v = NaN THEN NaN ELSE (v + 50) \div 100

\* The point with its year counted from one.
ProjectionPoint_YearFromOne(paths, year) ==
    LET values == SortAscending(Column(paths, year))
    IN [year |-> 2024 + year + 1,
        p5 |-> Round1(percentile(values, 5)),
        p10 |-> Round1(percentile(values, 10)),
        p25 |-> Round1(percentile(values, 25)),
        median |-> Round1(percentile(values, 50)),
        p75 |-> Round1(percentile(values, 75)),
        p90 |-> Round1(percentile(values, 90)),
        p95 |-> Round1(percentile(values, 95))]

ProjectionPoint(paths, year) ==
    LET values == SortAscending(Column(paths, year))
    IN [year |-> 2024 + year,
        p5 |-> Round1(percentile(values, 5)),
        p10 |-> Round1(percentile(values, 10)),
        p25 |-> Round1(percentile(values, 25)),
        median |-> Round1(percentile(values, 50)),
        p75 |-> Round1(percentile(values, 75)),
        p90 |-> Round1(percentile(values, 90)),
        p95 |-> Round1(percentile(values, 95))]

(***************************************************************************)
(* randn(): a Box-Muller draw.  Math.random() returns a multiple of 2^-53  *)
(* in (0,1) after the re-draw of zeros, so |randn()| <= sqrt(106 ln 2),    *)
(* below 8.58.  A run's draws come from one part of that range.            *)
(***************************************************************************)
RandnMax == 857

ShockSources == {"zero", "typical", "tail"}

ShockTriples(source) ==
    CASE source = "zero" -> {<<0, 0, 0>>}
      [] source = "typical" -> {<<-100, -100, -100>>, <<100, 100, 100>>}
      [] source = "tail" -> {<<-RandnMax, -RandnMax, -RandnMax>>,
                             <<RandnMax, RandnMax, RandnMax>>}

(***************************************************************************)
(* simulateDebtPath(country, reform, years, nSims) as a state machine      *)
(***************************************************************************)
MaxYears == 2
MaxSims == 3

CallCountries == {"japan", "brazil", "turkey", "atlantis", "constructor"}
CallReforms == {"none", "aggressive", "bogus", "constructor"}
CallYears == -1..MaxYears
CallSims == 0..MaxSims

VARIABLES pc, country, reform, years, nSims, shockSource, sim, t,
          debt, growth, inflation, pb, path, allPaths, result, error, nDraws,
          draws, allDraws,
          rgCategory, rgDebt, rgSim, rgFiscal,
          cmpPc, cmpCountry, cmpYear, cmpRuns, cmpMedian, cmpAllZero,
          selectedCountry, selectedReform, uiPc, uiError, simCalls,
          debtStabilizingPB, fiscalGap,
          rpPc, rpCall, rpFirst, rpSecond,
          rtCategory, rtDebt, rtReform, rtYear, rtRegime, rtPremium, rtRate,
          phIn, phOut,
          agValues, agPoint,
          rnPc, rnU, rnV, rnZ, rnZeros,
          lvResampled,
          shPc, shUrl, shCountry, shReform

\* draws and allDraws are the record of what randn() returned: the draws of
\* the trial under way, year by year, and those of each finished trial.
simVars == <<pc, country, reform, years, nSims, shockSource, sim, t,
             debt, growth, inflation, pb, path, allPaths, result, error, nDraws,
             draws, allDraws>>
rgVars == <<rgCategory, rgDebt, rgSim, rgFiscal>>
cmpVars == <<cmpPc, cmpCountry, cmpYear, cmpRuns, cmpMedian, cmpAllZero>>
uiVars == <<selectedCountry, selectedReform, uiPc, uiError, simCalls,
            debtStabilizingPB, fiscalGap>>
rpVars == <<rpPc, rpCall, rpFirst, rpSecond>>
rtVars == <<rtCategory, rtDebt, rtReform, rtYear, rtRegime, rtPremium, rtRate>>
phVars == <<phIn, phOut>>
agVars == <<agValues, agPoint>>
rnVars == <<rnPc, rnU, rnV, rnZ, rnZeros>>
lvVars == <<lvResampled>>
shVars == <<shPc, shUrl, shCountry, shReform>>
moreVars == <<phVars, agVars, rnVars, lvVars, shVars>>
extVars == <<uiVars, rpVars, rtVars, moreVars>>
vars == <<simVars, rgVars, cmpVars, extVars>>

SimIdle ==
    /\ pc = "idle"
    /\ country = "" /\ reform = "" /\ years = 0 /\ nSims = 0
    /\ shockSource = "zero"
    /\ sim = 0 /\ t = 0
    /\ debt = 0 /\ growth = 0 /\ inflation = 0 /\ pb = 0
    /\ path = <<>> /\ allPaths = <<>> /\ result = <<>>
    /\ error = "none" /\ nDraws = 0
    /\ draws = <<>> /\ allDraws = <<>>

RegimeIdle ==
    /\ rgCategory = "developed" /\ rgDebt = 0 /\ rgSim = -1 /\ rgFiscal = -1

CompareIdle ==
    /\ cmpPc = "idle" /\ cmpCountry = "" /\ cmpYear = 0
    /\ cmpRuns = <<>> /\ cmpMedian = <<>> /\ cmpAllZero = TRUE

\* The dashboard before its first render: useState('brazil'), useState('none').
DashboardIdle ==
    /\ selectedCountry = "brazil" /\ selectedReform = "none"
    /\ uiPc = "unmounted" /\ uiError = "none" /\ simCalls = {}
    /\ debtStabilizingPB = NaN /\ fiscalGap = NaN

RepeatIdle ==
    /\ rpPc = "idle" /\ rpCall = <<>> /\ rpFirst = <<>> /\ rpSecond = <<>>

RateIdle ==
    /\ rtCategory = "developed" /\ rtDebt = 0 /\ rtReform = "none" /\ rtYear = 1
    /\ rtRegime = -1 /\ rtPremium = -1 /\ rtRate = -1

PhaseIdle == phIn = <<>> /\ phOut = <<>>

AggregateIdle == agValues = <<>> /\ agPoint = <<>>

\* let u = 0, v = 0
RandnIdle == rnPc = "idle" /\ rnU = 0 /\ rnV = 0 /\ rnZ = 0 /\ rnZeros = 0

LiveIdle == lvResampled = FALSE

ShareIdle == shPc = "none" /\ shUrl = <<>> /\ shCountry = "" /\ shReform = ""

MoreIdle == PhaseIdle /\ AggregateIdle /\ RandnIdle /\ LiveIdle /\ ShareIdle

ExtIdle == DashboardIdle /\ RepeatIdle /\ RateIdle /\ MoreIdle

Init == SimIdle /\ RegimeIdle /\ CompareIdle /\ ExtIdle

\* const data = COUNTRY_DATA[country]
dataKind == Lookup(COUNTRY_DATA, country)
\* const ref = REFORMS[reform]
refKind == Lookup(REFORMS, reform)

\* Lines 135-162: the lookups.  data.category throws a TypeError when data is
\* undefined; REFORMS[reform] is only stored.
Call(c, r, y, n, src) ==
    /\ pc = "idle"
    /\ country' = c /\ reform' = r /\ years' = y /\ nSims' = n
    /\ shockSource' = src
    /\ IF Lookup(COUNTRY_DATA, c) = "undefined"
       THEN pc' = "thrown" /\ error' = "TypeError"
       ELSE pc' = "simLoop" /\ error' = "none"
    /\ sim' = 0 /\ allPaths' = <<>>
    /\ UNCHANGED <<t, debt, growth, inflation, pb, path, result, nDraws,
                   draws, allDraws>>
    /\ UNCHANGED <<rgVars, cmpVars, extVars>>

\* A trial that starts from the debt the previous trial ended with (the
\* declaration of debt hoisted out of the trial loop).
BeginTrial_KeepDebt ==
    /\ pc = "simLoop" /\ sim < nSims
    /\ IF dataKind = "own"
       THEN /\ debt' = IF sim = 0 THEN COUNTRY_DATA[country].debt2024 ELSE debt
            /\ growth' = COUNTRY_DATA[country].growth
            /\ inflation' = COUNTRY_DATA[country].inflation
            /\ pb' = COUNTRY_DATA[country].pb
       ELSE debt' = NaN /\ growth' = NaN /\ inflation' = NaN /\ pb' = NaN
    /\ path' = <<debt'>>
    /\ draws' = <<>>
    /\ t' = 1
    /\ pc' = "yearLoop"
    /\ UNCHANGED <<country, reform, years, nSims, shockSource, sim, allPaths,
                   result, error, nDraws, allDraws>>
    /\ UNCHANGED <<rgVars, cmpVars, extVars>>

\* A trial that keeps the growth, inflation and primary balance the previous
\* trial ended with (their declarations hoisted out of the trial loop).
BeginTrial_KeepMacro ==
    /\ pc = "simLoop" /\ sim < nSims
    /\ IF dataKind = "own"
       THEN /\ debt' = COUNTRY_DATA[country].debt2024
            /\ growth' = IF sim = 0 THEN COUNTRY_DATA[country].growth ELSE growth
            /\ inflation' = IF sim = 0 THEN COUNTRY_DATA[country].inflation
                                       ELSE inflation
            /\ pb' = IF sim = 0 THEN COUNTRY_DATA[country].pb ELSE pb
       ELSE debt' = NaN /\ growth' = NaN /\ inflation' = NaN /\ pb' = NaN
    /\ path' = <<debt'>>
    /\ draws' = <<>>
    /\ t' = 1
    /\ pc' = "yearLoop"
    /\ UNCHANGED <<country, reform, years, nSims, shockSource, sim, allPaths,
                   result, error, nDraws, allDraws>>
    /\ UNCHANGED <<rgVars, cmpVars, extVars>>

\* A trial whose path starts empty (const path = []).
BeginTrial_EmptyPath ==
    /\ pc = "simLoop" /\ sim < nSims
    /\ IF dataKind = "own"
       THEN /\ debt' = COUNTRY_DATA[country].debt2024
            /\ growth' = COUNTRY_DATA[country].growth
            /\ inflation' = COUNTRY_DATA[country].inflation
            /\ pb' = COUNTRY_DATA[country].pb
       ELSE debt' = NaN /\ growth' = NaN /\ inflation' = NaN /\ pb' = NaN
    /\ path' = <<>>
    /\ draws' = <<>>
    /\ t' = 1
    /\ pc' = "yearLoop"
    /\ UNCHANGED <<country, reform, years, nSims, shockSource, sim, allPaths,
                   result, error, nDraws, allDraws>>
    /\ UNCHANGED <<rgVars, cmpVars, extVars>>

\* Lines 164-171: a trial starts from the country's baseline.
BeginTrial ==
    /\ pc = "simLoop" /\ sim < nSims
    /\ IF dataKind = "own"
       THEN /\ debt' = COUNTRY_DATA[country].debt2024
            /\ growth' = COUNTRY_DATA[country].growth
            /\ inflation' = COUNTRY_DATA[country].inflation
            /\ pb' = COUNTRY_DATA[country].pb
       ELSE debt' = NaN /\ growth' = NaN /\ inflation' = NaN /\ pb' = NaN
    /\ path' = <<debt'>>
    /\ draws' = <<>>
    /\ t' = 1
    /\ pc' = "yearLoop"
    /\ UNCHANGED <<country, reform, years, nSims, shockSource, sim, allPaths,
                   result, error, nDraws, allDraws>>
    /\ UNCHANGED <<rgVars, cmpVars, extVars>>

\* Lines 173-197: one year.  The three draws and the macro updates come
\* first; ref.pbImprove throws a TypeError when ref is undefined; an inherited
\* ref has no pbImprove, and the undefined turns the debt into NaN.  With an
\* inherited data, volatility is undefined and volatility.growth throws right
\* after the first draw.
SimulateYear(z) ==
    /\ pc = "yearLoop" /\ t <= years
    /\ IF dataKind = "inherited"
       THEN /\ nDraws' = nDraws + 1
            /\ pc' = "thrown" /\ error' = "TypeError"
            /\ UNCHANGED <<t, debt, growth, inflation, pb, path>>
       ELSE LET data == COUNTRY_DATA[country]
                m == MacroStep(data, growth, inflation, pb, z)
            IN /\ nDraws' = nDraws + 3
               /\ growth' = m.growth /\ inflation' = m.inflation /\ pb' = m.pb
               /\ IF refKind = "undefined"
                  THEN /\ pc' = "thrown" /\ error' = "TypeError"
                       /\ UNCHANGED <<t, debt, path>>
                  ELSE /\ debt' = IF refKind = "inherited" \/ debt = NaN THEN NaN
                                  ELSE NextDebt(data, REFORMS[reform], t, debt,
                                                m.growth, m.inflation, m.pb)
                       /\ path' = Append(path, debt')
                       /\ t' = t + 1
                       /\ UNCHANGED <<pc, error>>
    /\ draws' = Append(draws, z)
    /\ UNCHANGED <<country, reform, years, nSims, shockSource, sim, allPaths,
                   result, allDraws>>
    /\ UNCHANGED <<rgVars, cmpVars, extVars>>

\* A trial loop that throws the finished trial away and runs it again.
EndTrial_Restart ==
    /\ pc = "yearLoop" /\ t > years
    /\ pc' = "simLoop"
    /\ nDraws' = nDraws - 3 * years
    /\ UNCHANGED <<country, reform, years, nSims, shockSource, t, debt, growth,
                   inflation, pb, path, result, error, draws, sim, allPaths,
                   allDraws>>
    /\ UNCHANGED <<rgVars, cmpVars, extVars>>

\* Line 199: allPaths.push(path)
EndTrial ==
    /\ pc = "yearLoop" /\ t > years
    /\ allPaths' = Append(allPaths, path)
    /\ allDraws' = Append(allDraws, draws)
    /\ sim' = sim + 1
    /\ pc' = "simLoop"
    /\ UNCHANGED <<country, reform, years, nSims, shockSource, t, debt, growth,
                   inflation, pb, path, result, error, nDraws, draws>>
    /\ UNCHANGED <<rgVars, cmpVars, extVars>>

\* Aggregation entered as soon as one trial has finished.
BeginAggregate_Early ==
    /\ pc = "simLoop" /\ (sim >= nSims \/ sim >= 1)
    /\ result' = <<>>
    /\ t' = 0
    /\ pc' = "aggLoop"
    /\ UNCHANGED <<country, reform, years, nSims, shockSource, sim, debt, growth,
                   inflation, pb, path, allPaths, error, nDraws, draws, allDraws>>
    /\ UNCHANGED <<rgVars, cmpVars, extVars>>

\* Lines 203-204: the trial loop is over, aggregation starts at t = 0.
BeginAggregate ==
    /\ pc = "simLoop" /\ sim >= nSims
    /\ result' = <<>>
    /\ t' = 0
    /\ pc' = "aggLoop"
    /\ UNCHANGED <<country, reform, years, nSims, shockSource, sim, debt, growth,
                   inflation, pb, path, allPaths, error, nDraws, draws, allDraws>>
    /\ UNCHANGED <<rgVars, cmpVars, extVars>>

\* The year's values sorted in place in the trajectories themselves.
AggregateYear_SortInPlace ==
    /\ pc = "aggLoop" /\ t <= years
    /\ result' = Append(result, ProjectionPoint(allPaths, t))
    /\ allPaths' = LET values == SortAscending(Column(allPaths, t))
                   IN [k \in 1..Len(allPaths) |->
                          IF t + 1 \in DOMAIN allPaths[k]
                          THEN [allPaths[k] EXCEPT ![t + 1] = values[k]]
                          ELSE allPaths[k]]
    /\ t' = t + 1
    /\ UNCHANGED <<pc, country, reform, years, nSims, shockSource, sim, debt,
                   growth, inflation, pb, path, error, nDraws, draws, allDraws>>
    /\ UNCHANGED <<rgVars, cmpVars, extVars>>

\* Lines 204-218: one projection point.
AggregateYear ==
    /\ pc = "aggLoop" /\ t <= years
    /\ result' = Append(result, ProjectionPoint(allPaths, t))
    /\ t' = t + 1
    /\ UNCHANGED <<pc, country, reform, years, nSims, shockSource, sim, debt,
                   growth, inflation, pb, path, allPaths, error, nDraws, draws,
                   allDraws>>
    /\ UNCHANGED <<rgVars, cmpVars, extVars>>

\* Line 220: return result
Return ==
    /\ pc = "aggLoop" /\ t > years
    /\ pc' = "returned"
    /\ UNCHANGED <<country, reform, years, nSims, shockSource, sim, t, debt,
                   growth, inflation, pb, path, allPaths, result, error, nDraws,
                   draws, allDraws>>
    /\ UNCHANGED <<rgVars, cmpVars, extVars>>

Next ==
    \/ /\ pc = "idle"
       /\ \E c \in CallCountries, r \in CallReforms, y \in CallYears,
             n \in CallSims, src \in ShockSources : Call(c, r, y, n, src)
    \/ BeginTrial
    \/ /\ pc = "yearLoop"
       /\ \E z \in ShockTriples(shockSource) : SimulateYear(z)
    \/ EndTrial
    \/ BeginAggregate
    \/ AggregateYear
    \/ Return

Spec == Init /\ [][Next]_vars

(***************************************************************************)
(* The regime rule on its own.  The simulator classifies the prior-year    *)
(* debt (line 180); the fiscal gap calculation of DSADashboard classifies  *)
(* the baseline debt with an expression of its own (line 290).  Both are   *)
(* applied here to debt levels drawn from a grid over [0, 300] and from    *)
(* the neighbourhood of each threshold.                                    *)
(***************************************************************************)
\* countryData.debt2024 < params.thresholds[0] ? 0
\*   : countryData.debt2024 < params.thresholds[1] ? 1 : 2
impliedRegime(debt2024, thresholds) ==
    IF debt2024 < thresholds[1] THEN 0
    ELSE IF debt2024 < thresholds[2] THEN 1
    ELSE 2

\* The implied rate with the simulator's debt premium added to it.
impliedRate_WithPremium(debt2024, params) ==
    LET regime == impliedRegime(debt2024, params.thresholds)
    IN params.baseRates[regime + 1] + ratePremium(params, regime, debt2024)

\* params.baseRates[...]
impliedRate(debt2024, params) ==
    params.baseRates[impliedRegime(debt2024, params.thresholds) + 1]

MaxGrid == 60

ProbeDebts(cat) ==
    {k * 5000 : k \in 0..MaxGrid}
    \cup {REGIME_PARAMS[cat].thresholds[i] + d : i \in 1..2, d \in {-1, 0, 1}}

InitRegime ==
    /\ SimIdle /\ CompareIdle /\ ExtIdle
    /\ rgCategory \in DOMAIN REGIME_PARAMS
    /\ rgDebt \in ProbeDebts(rgCategory)
    /\ rgSim = -1 /\ rgFiscal = -1

ClassifySimulator ==
    /\ rgSim = -1
    /\ rgSim' = Regime(rgDebt, REGIME_PARAMS[rgCategory].thresholds)
    /\ UNCHANGED <<rgCategory, rgDebt, rgFiscal, simVars, cmpVars, extVars>>

ClassifyFiscalGap ==
    /\ rgFiscal = -1
    /\ rgFiscal' = impliedRegime(rgDebt, REGIME_PARAMS[rgCategory].thresholds)
    /\ UNCHANGED <<rgCategory, rgDebt, rgSim, simVars, cmpVars, extVars>>

NextRegime == ClassifySimulator \/ ClassifyFiscalGap

SpecRegime == InitRegime /\ [][NextRegime]_vars

(***************************************************************************)
(* The scenario comparison of DSADashboard (lines 273-283) runs            *)
(* simulateDebtPath once per reform.  Here the four runs are stepped       *)
(* together, one trial each over the default horizon, every run reading    *)
(* the same draws, and the median of each is taken at the last year.       *)
(***************************************************************************)
DefaultYears == 10

CompareTriples == {<<0, 0, 0>>, <<-100, -200, 200>>}

InitCompare ==
    /\ SimIdle /\ RegimeIdle /\ CompareIdle /\ ExtIdle

CompareStart(c) ==
    /\ cmpPc = "idle"
    /\ cmpCountry' = c
    /\ cmpYear' = 0
    /\ cmpRuns' = [r \in DOMAIN REFORMS |->
                     [debt |-> COUNTRY_DATA[c].debt2024,
                      growth |-> COUNTRY_DATA[c].growth,
                      inflation |-> COUNTRY_DATA[c].inflation,
                      pb |-> COUNTRY_DATA[c].pb,
                      path |-> <<COUNTRY_DATA[c].debt2024>>]]
    /\ cmpPc' = "run"
    /\ UNCHANGED <<cmpMedian, cmpAllZero, simVars, rgVars, extVars>>

CompareYear(z) ==
    /\ cmpPc = "run" /\ cmpYear < DefaultYears
    /\ cmpYear' = cmpYear + 1
    /\ cmpRuns' = [r \in DOMAIN REFORMS |->
                     LET st == cmpRuns[r]
                         data == COUNTRY_DATA[cmpCountry]
                         m == MacroStep(data, st.growth, st.inflation, st.pb, z)
                         d == NextDebt(data, REFORMS[r], cmpYear + 1, st.debt,
                                       m.growth, m.inflation, m.pb)
                     IN [debt |-> d, growth |-> m.growth,
                         inflation |-> m.inflation, pb |-> m.pb,
                         path |-> Append(st.path, d)]]
    /\ cmpAllZero' = (cmpAllZero /\ z = <<0, 0, 0>>)
    /\ UNCHANGED <<cmpPc, cmpCountry, cmpMedian, simVars, rgVars, extVars>>

CompareAggregate ==
    /\ cmpPc = "run" /\ cmpYear = DefaultYears
    /\ cmpMedian' = [r \in DOMAIN REFORMS |->
                       ProjectionPoint(<<cmpRuns[r].path>>, DefaultYears).median]
    /\ cmpPc' = "done"
    /\ UNCHANGED <<cmpCountry, cmpYear, cmpRuns, cmpAllZero, simVars, rgVars, extVars>>

NextCompare ==
    \/ /\ cmpPc = "idle"
       /\ \E c \in DOMAIN COUNTRY_DATA : CompareStart(c)
    \/ /\ cmpPc = "run"
       /\ \E z \in CompareTriples : CompareYear(z)
    \/ CompareAggregate

SpecCompare == InitCompare /\ [][NextCompare]_vars

(***************************************************************************)
(* DSADashboard (lines 246-292, 768-829): the selection state, the URL      *)
(* parameters read by the mount effect, the country dropdown, the scenario  *)
(* buttons, and what a render computes from the selection: the calls of     *)
(* simulateDebtPath and the debt-stabilizing primary balance with its       *)
(* fiscal gap.                                                              *)
(***************************************************************************)
\* The labels without the one of the Japan special case.
CATEGORIES_NoJapan == [
    developed |-> "Developed",
    em_ig |-> "EM Investment Grade",
    em_hy |-> "EM High Yield",
    frontier |-> "Frontier"]

CATEGORIES == [
    developed |-> "Developed",
    japan_special |-> "Japan",
    em_ig |-> "EM Investment Grade",
    em_hy |-> "EM High Yield",
    frontier |-> "Frontier"]

\* (1 + growth/100) * (1 + inflation/100) - 1, scaled by One
nominalGrowth(countryData) ==
    MulDiv(One + countryData.growth, One + countryData.inflation, One) - One

\* calcDebtStabilizingPB(debt, r, g), r and g in percent:
\* ((r/100 - g/100) / (1 + g/100)) * (debt/100) * 100
calcDebtStabilizingPB(d, r, g) == MulDiv(r - g, d, One + g)

\* Lines 266-292 for a selection whose country is in the table.
StabilizingPB(c) ==
    LET countryData == COUNTRY_DATA[c]
        params == REGIME_PARAMS[countryData.category]
    IN calcDebtStabilizingPB(countryData.debt2024,
                             impliedRate(countryData.debt2024, params),
                             nominalGrowth(countryData))

\* The gap with its sign reversed (actual minus stabilizing balance).
FiscalGap_Reversed(c) == COUNTRY_DATA[c].pb - StabilizingPB(c)

\* debtStabilizingPB - countryData.pb
FiscalGap(c) == StabilizingPB(c) - COUNTRY_DATA[c].pb

\* The keys a for-in or Object.entries walk of a table visits: its own keys.
OwnKeys(table) == DOMAIN table

\* Lines 783-796: the dropdown has one option per entry of COUNTRY_DATA, put
\* in the group labelled CATEGORIES[data.category].
DropdownOptions == OwnKeys(COUNTRY_DATA)
OptionGroup(c) ==
    IF COUNTRY_DATA[c].category \in DOMAIN CATEGORIES
    THEN CATEGORIES[COUNTRY_DATA[c].category] ELSE "undefined"

\* The simulateDebtPath calls of a render: projectionData is recomputed when
\* the country or the reform changed, comparisonData (one call per reform)
\* when the country changed.  A call that throws ends the render.
RenderCalls(c, r, countryChanged) ==
    IF Lookup(COUNTRY_DATA, c) = "own"
    THEN {<<c, r>>} \cup (IF countryChanged
                          THEN {<<c, k>> : k \in OwnKeys(REFORMS)} ELSE {})
    ELSE IF Lookup(COUNTRY_DATA, c) = "inherited" THEN {<<c, r>>}
    ELSE {}

\* What a render throws: COUNTRY_DATA[selectedCountry].category on an
\* undefined entry (line 267), or simulateDebtPath on an inherited member,
\* whose volatility is undefined (line 175).
RenderError(c) ==
    IF Lookup(COUNTRY_DATA, c) = "own" THEN "none" ELSE "TypeError"

\* One render of the component with the selection <<c, r>>.
Render(c, r, countryChanged) ==
    /\ simCalls' = RenderCalls(c, r, countryChanged)
    /\ uiError' = RenderError(c)
    /\ uiPc' = IF RenderError(c) = "none" THEN "mounted" ELSE "crashed"
    /\ IF RenderError(c) = "none"
       THEN /\ debtStabilizingPB' = StabilizingPB(c)
            /\ fiscalGap' = FiscalGap(c)
       ELSE UNCHANGED <<debtStabilizingPB, fiscalGap>>

\* params.get(...) of the URL: "" stands for a missing (null) or empty value.
UrlCountryParams == {"", "japan", "india", "atlantis", "constructor"}
UrlScenarioParams == {"", "aggressive", "bogus", "constructor"}

\* if (countryParam && COUNTRY_DATA[countryParam]): a truthiness test
Truthy(table, key) == key # "" /\ Lookup(table, key) # "undefined"

\* Lines 251-264: the first render with the defaults, then the effect that
\* reads the URL and the render its state updates cause.
Mount(countryParam, scenarioParam) ==
    /\ uiPc = "unmounted"
    /\ selectedCountry' = IF Truthy(COUNTRY_DATA, countryParam)
                          THEN countryParam ELSE selectedCountry
    /\ selectedReform' = IF Truthy(REFORMS, scenarioParam)
                         THEN scenarioParam ELSE selectedReform
    /\ Render(selectedCountry', selectedReform', TRUE)
    /\ UNCHANGED <<simVars, rgVars, cmpVars, rpVars, rtVars, moreVars>>

\* Line 770: onChange of the country dropdown, whose options are the
\* entries of COUNTRY_DATA (lines 783-796).
ChangeCountry(c) ==
    /\ uiPc = "mounted"
    /\ c \in DropdownOptions
    /\ selectedCountry' = c
    /\ UNCHANGED selectedReform
    /\ Render(c, selectedReform, c # selectedCountry)
    /\ UNCHANGED <<simVars, rgVars, cmpVars, rpVars, rtVars, moreVars>>

\* Line 814: onClick of a scenario button, one button per entry of REFORMS.
ClickScenario(k) ==
    /\ uiPc = "mounted"
    /\ k \in OwnKeys(REFORMS)
    /\ selectedReform' = k
    /\ UNCHANGED selectedCountry
    /\ Render(selectedCountry, k, FALSE)
    /\ UNCHANGED <<simVars, rgVars, cmpVars, rpVars, rtVars, moreVars>>

InitDashboard == Init

NextDashboard ==
    \/ /\ uiPc = "unmounted"
       /\ \E cp \in UrlCountryParams, sp \in UrlScenarioParams : Mount(cp, sp)
    \/ /\ uiPc = "mounted"
       /\ \E c \in DropdownOptions : ChangeCountry(c)
    \/ /\ uiPc = "mounted"
       /\ \E k \in OwnKeys(REFORMS) : ClickScenario(k)

SpecDashboard == InitDashboard /\ [][NextDashboard]_vars

(***************************************************************************)
(* simulateDebtPath called twice with the same arguments.  Its signature    *)
(* (line 135) has the country, the reform, the horizon and the trial count; *)
(* the draws are not among them: randn() (lines 154-159) reads              *)
(* Math.random(), so each call takes whatever the generator yields next.    *)
(***************************************************************************)
\* The whole of simulateDebtPath for a known country and reform, as a
\* function of its arguments and of what randn() returned: streams[j][t] are
\* the three draws of year t of trial j.
Simulate(c, r, y, n, streams) ==
    LET paths == [j \in 1..n |-> TrialPath(c, r, y, streams[j])]
    IN [k \in 1..(y + 1) |-> ProjectionPoint(paths, k - 1)]

RepeatCountries == {"brazil", "japan"}
RepeatReforms == {"none", "aggressive"}
RepeatYears == {1, 2}
RepeatSims == {1, 2}
RepeatTriples == {<<0, 0, 0>>, <<100, 100, 100>>}

\* What Math.random() may yield over one call.
AmbientStreams(y, n) == [1..n -> [1..y -> RepeatTriples]]

InitRepeat == Init

FirstCall(c, r, y, n, streams) ==
    /\ rpPc = "idle"
    /\ rpCall' = <<c, r, y, n>>
    /\ rpFirst' = Simulate(c, r, y, n, streams)
    /\ rpPc' = "once"
    /\ UNCHANGED <<rpSecond, simVars, rgVars, cmpVars, uiVars, rtVars,
                   moreVars>>

SecondCall(streams) ==
    /\ rpPc = "once"
    /\ rpSecond' = Simulate(rpCall[1], rpCall[2], rpCall[3], rpCall[4], streams)
    /\ rpPc' = "twice"
    /\ UNCHANGED <<rpCall, rpFirst, simVars, rgVars, cmpVars, uiVars, rtVars,
                   moreVars>>

NextRepeat ==
    \/ /\ rpPc = "idle"
       /\ \E c \in RepeatCountries, r \in RepeatReforms,
             y \in RepeatYears, n \in RepeatSims :
             \E streams \in AmbientStreams(y, n) : FirstCall(c, r, y, n, streams)
    \/ /\ rpPc = "once"
       /\ \E streams \in AmbientStreams(rpCall[3], rpCall[4]) : SecondCall(streams)

SpecRepeat == InitRepeat /\ [][NextRepeat]_vars

(***************************************************************************)
(* The interest rate of one simulated year (lines 180-188) on its own, for  *)
(* every classification and reform, prior debt levels drawn from the grid   *)
(* over [0, 300] and the neighbourhood of each threshold, and years across  *)
(* the rate phase-in.                                                       *)
(***************************************************************************)
RateYears == {1, 2, 3, 4, 5, 10}

InitRate ==
    /\ SimIdle /\ RegimeIdle /\ CompareIdle /\ DashboardIdle /\ RepeatIdle
    /\ MoreIdle
    /\ rtCategory \in DOMAIN REGIME_PARAMS
    /\ rtDebt \in ProbeDebts(rtCategory)
    /\ rtReform \in DOMAIN REFORMS
    /\ rtYear \in RateYears
    /\ rtRegime = -1 /\ rtPremium = -1 /\ rtRate = -1

\* Line 180
RateRegime ==
    /\ rtRegime = -1
    /\ rtRegime' = Regime(rtDebt, REGIME_PARAMS[rtCategory].thresholds)
    /\ UNCHANGED <<rtCategory, rtDebt, rtReform, rtYear, rtPremium, rtRate>>
    /\ UNCHANGED <<simVars, rgVars, cmpVars, uiVars, rpVars, moreVars>>

\* Lines 187-188
RateOfYear ==
    /\ rtRegime # -1 /\ rtRate = -1
    /\ rtPremium' = ratePremium(REGIME_PARAMS[rtCategory], rtRegime, rtDebt)
    /\ rtRate' = InterestRate(REGIME_PARAMS[rtCategory], REFORMS[rtReform],
                              rtYear, rtRegime, rtDebt)
    /\ UNCHANGED <<rtCategory, rtDebt, rtReform, rtYear, rtRegime>>
    /\ UNCHANGED <<simVars, rgVars, cmpVars, uiVars, rpVars, moreVars>>

NextRate == RateRegime \/ RateOfYear

SpecRate == InitRate /\ [][NextRate]_vars

(***************************************************************************)
(* The reform terms of one simulated year (lines 183-191) on their own:     *)
(* for a country's baseline, a regime, a reform and a year, the primary     *)
(* balance improvement and the rate reduction applied in that year and in   *)
(* the next, and the real growth.                                           *)
(***************************************************************************)
PhaseYears == 1..(DefaultYears + 2)

InitPhase ==
    /\ SimIdle /\ RegimeIdle /\ CompareIdle
    /\ DashboardIdle /\ RepeatIdle /\ RateIdle
    /\ AggregateIdle /\ RandnIdle /\ LiveIdle /\ ShareIdle
    /\ phIn \in [country : DOMAIN COUNTRY_DATA, reform : DOMAIN REFORMS,
                 regime : 0..2, year : PhaseYears]
    /\ phOut = <<>>

\* What lines 183-191 apply in year t: reformEffect, the part of baseR taken
\* off the regime's base rate, and g_real.
ReformTerms(data, ref, regime, yr) ==
    LET params == REGIME_PARAMS[data.category]
    IN [pb |-> reformEffect(ref, yr),
        cut |-> params.baseRates[regime + 1] - baseR(params, ref, yr, regime),
        gReal |-> RealGrowth(params, ref, regime, data.growth)]

ApplyReform ==
    /\ phIn # <<>> /\ phOut = <<>>
    /\ phOut' = [now |-> ReformTerms(COUNTRY_DATA[phIn.country], REFORMS[phIn.reform],
                                     phIn.regime, phIn.year),
                 next |-> ReformTerms(COUNTRY_DATA[phIn.country], REFORMS[phIn.reform],
                                      phIn.regime, phIn.year + 1)]
    /\ UNCHANGED <<phIn, agVars, rnVars, lvVars, shVars>>
    /\ UNCHANGED <<simVars, rgVars, cmpVars, uiVars, rpVars, rtVars>>

NextPhase == ApplyReform

SpecPhase == InitPhase /\ [][NextPhase]_vars

(***************************************************************************)
(* The aggregation of one year (lines 205-217) on its own: an ensemble of  *)
(* trial values for that year, in trial order, and the point built from it. *)
(***************************************************************************)
MaxEnsemble == 21

EnsembleShapes == {"ascending", "descending", "alternating", "constant"}
EnsembleBases == {0, 45650, 250040}

\* n debt ratios within [0, 300], in thousandths of a point.
Ensemble(n, shape, base) ==
    [k \in 1..n |->
        CASE shape = "ascending" -> base + 1370 * k
          [] shape = "descending" -> base + 1370 * (n + 1 - k)
          [] shape = "alternating" ->
                base + 1370 * (IF k % 2 = 1 THEN (k + 1) \div 2 ELSE n + 1 - k \div 2)
          [] OTHER -> base]

Ensembles ==
    {Ensemble(n, shape, base) :
        n \in 1..MaxEnsemble, shape \in EnsembleShapes, base \in EnsembleBases}
    \cup UNION {[1..n -> {0, 88860, 300000}] : n \in 1..3}

InitAggregate ==
    /\ SimIdle /\ RegimeIdle /\ CompareIdle
    /\ DashboardIdle /\ RepeatIdle /\ RateIdle
    /\ PhaseIdle /\ RandnIdle /\ LiveIdle /\ ShareIdle
    /\ agValues \in Ensembles
    /\ agPoint = <<>>

\* One pass of the loop body of lines 204-217 over trajectories whose value
\* at the year is agValues[k].
AggregateEnsemble ==
    /\ agValues # <<>> /\ agPoint = <<>>
    /\ agPoint' = ProjectionPoint([k \in 1..Len(agValues) |-> <<agValues[k]>>], 0)
    /\ UNCHANGED <<agValues, phVars, rnVars, lvVars, shVars>>
    /\ UNCHANGED <<simVars, rgVars, cmpVars, uiVars, rpVars, rtVars>>

NextAggregate == AggregateEnsemble

SpecAggregate == InitAggregate /\ [][NextAggregate]_vars

(***************************************************************************)
(* randn() (lines 154-159) as a state machine.  Math.random() returns a    *)
(* double in [0, 1); the model draws it from the sixteenths, 0 included.   *)
(* rnU and rnV are the numerators of u and v, rnZ the value returned in    *)
(* hundredths, rnZeros the number of zero draws discarded so far (counted  *)
(* up to MaxRedraws).                                                      *)
(***************************************************************************)
MaxRedraws == 2

Uniforms == 0..15

Infinity == 2^30

\* 100 * Math.sqrt(-2.0 * Math.log(k / 16)) for k = 1..15
Radius == <<235, 204, 183, 167, 153, 140, 129, 118, 107, 97, 87, 76, 64, 52, 36>>

\* 1000 * Math.cos(2.0 * Math.PI * k / 16) for k = 0..15
Cosine == <<1000, 924, 707, 383, 0, -383, -707, -924,
            -1000, -924, -707, -383, 0, 383, 707, 924>>

\* Line 158.  Math.log(0) is -Infinity, so u = 0 gives an infinite radius;
\* the double nearest to a quarter turn has a small nonzero cosine, so the
\* product is infinite there too.
BoxMuller(u, v) ==
    IF u = 0 THEN (IF v \in 5..12 THEN -Infinity ELSE Infinity)
    ELSE (Radius[u] * Cosine[v + 1]) \div 1000

InitRandn ==
    /\ SimIdle /\ RegimeIdle /\ CompareIdle
    /\ DashboardIdle /\ RepeatIdle /\ RateIdle
    /\ PhaseIdle /\ AggregateIdle /\ LiveIdle /\ ShareIdle
    /\ RandnIdle

\* Line 155: let u = 0, v = 0
RandnCall ==
    /\ rnPc = "idle"
    /\ rnPc' = "whileU"
    /\ rnU' = 0 /\ rnV' = 0
    /\ UNCHANGED <<rnZ, rnZeros, phVars, agVars, lvVars, shVars>>
    /\ UNCHANGED <<simVars, rgVars, cmpVars, uiVars, rpVars, rtVars>>

\* The first loop with its test dropped: u is drawn once.
LoopU_Once(x) ==
    /\ rnPc = "whileU"
    /\ rnU' = x /\ rnPc' = "whileV"
    /\ UNCHANGED <<rnV, rnZ, rnZeros, phVars, agVars, lvVars, shVars>>
    /\ UNCHANGED <<simVars, rgVars, cmpVars, uiVars, rpVars, rtVars>>

\* Line 156: while (u === 0) u = Math.random()
LoopU(x) ==
    /\ rnPc = "whileU"
    /\ IF rnU = 0
       THEN /\ rnU' = x
            /\ rnZeros' = IF x = 0 THEN Min(rnZeros + 1, MaxRedraws) ELSE rnZeros
            /\ UNCHANGED rnPc
       ELSE /\ rnPc' = "whileV"
            /\ UNCHANGED <<rnU, rnZeros>>
    /\ UNCHANGED <<rnV, rnZ, phVars, agVars, lvVars, shVars>>
    /\ UNCHANGED <<simVars, rgVars, cmpVars, uiVars, rpVars, rtVars>>

\* Line 157: while (v === 0) v = Math.random()
LoopV(x) ==
    /\ rnPc = "whileV"
    /\ IF rnV = 0
       THEN /\ rnV' = x
            /\ rnZeros' = IF x = 0 THEN Min(rnZeros + 1, MaxRedraws) ELSE rnZeros
            /\ UNCHANGED rnPc
       ELSE /\ rnPc' = "compute"
            /\ UNCHANGED <<rnV, rnZeros>>
    /\ UNCHANGED <<rnU, rnZ, phVars, agVars, lvVars, shVars>>
    /\ UNCHANGED <<simVars, rgVars, cmpVars, uiVars, rpVars, rtVars>>

\* Line 158: return Math.sqrt(-2.0 * Math.log(u)) * Math.cos(2.0 * Math.PI * v)
RandnReturn ==
    /\ rnPc = "compute"
    /\ rnZ' = BoxMuller(rnU, rnV)
    /\ rnPc' = "returned"
    /\ UNCHANGED <<rnU, rnV, rnZeros, phVars, agVars, lvVars, shVars>>
    /\ UNCHANGED <<simVars, rgVars, cmpVars, uiVars, rpVars, rtVars>>

NextRandn ==
    \/ RandnCall
    \/ rnPc = "whileU" /\ \E x \in Uniforms : LoopU(x)
    \/ rnPc = "whileV" /\ \E x \in Uniforms : LoopV(x)
    \/ RandnReturn

SpecRandn == InitRandn /\ [][NextRandn]_vars

(***************************************************************************)
(* A run of simulateDebtPath together with the re-draws of randn.  Inside  *)
(* a year, randn may draw a zero uniform and go round its loop again       *)
(* (lines 156-157) any number of times before the year's draws are         *)
(* complete; lvResampled is the parity of the zero draws discarded so far. *)
(* The function is synchronous, so a step that can be taken is taken; that *)
(* the year's draws do complete is the weak fairness of RunStep.           *)
(***************************************************************************)
LiveCountries == {"japan", "brazil"}
LiveReforms == {"none", "aggressive"}
LiveYears == 1..2
LiveSims == 1..2

InitLive == Init

\* Lines 156-157: a uniform draw was exactly zero and is drawn again.
Resample ==
    /\ pc = "yearLoop" /\ t <= years
    /\ lvResampled' = ~lvResampled
    /\ UNCHANGED <<phVars, agVars, rnVars, shVars>>
    /\ UNCHANGED <<simVars, rgVars, cmpVars, uiVars, rpVars, rtVars>>

\* Every step of the function after its entry.
RunStep ==
    \/ BeginTrial
    \/ /\ pc = "yearLoop"
       /\ \E z \in ShockTriples(shockSource) : SimulateYear(z)
    \/ EndTrial
    \/ BeginAggregate
    \/ AggregateYear
    \/ Return

NextLive ==
    \/ /\ pc = "idle"
       /\ \E c \in LiveCountries, r \in LiveReforms, y \in LiveYears,
             n \in LiveSims, src \in ShockSources : Call(c, r, y, n, src)
    \/ RunStep
    \/ Resample

SpecLive == InitLive /\ [][NextLive]_vars /\ WF_vars(RunStep)

(***************************************************************************)
(* The share link (lines 294-302) and its opening in a fresh dashboard     *)
(* (lines 247-264).  A URL's query is the sequence of its tokens; every    *)
(* key of the tables and of Object.prototype is made of letters, digits and *)
(* underscores, which the template inserts and URLSearchParams returns as  *)
(* written.  shPc is "none", then "copied" once the link of the current    *)
(* selection is on the clipboard, then "opened" once a fresh dashboard has *)
(* been mounted with it; shCountry and shReform are that dashboard's       *)
(* selection.                                                              *)
(***************************************************************************)
\* The query with the scenario under the name reform.
shareUrl_ReformParam(c, r) ==
    <<"?", "country", "=", c, "&", "reform", "=", r>>

\* Line 296: `...?country=${selectedCountry}&scenario=${selectedReform}`
shareUrl(c, r) ==
    <<"?", "country", "=", c, "&", "scenario", "=", r>>

\* new URLSearchParams(search).get(name): the value of the first pair with
\* that name, "" standing for null.
UrlGet(url, name) ==
    LET hits == {i \in 2..(Len(url) - 2) :
                    /\ url[i - 1] \in {"?", "&"}
                    /\ url[i] = name /\ url[i + 1] = "="}
    IN IF hits = {} THEN ""
       ELSE url[(CHOOSE i \in hits : \A j \in hits : i <= j) + 2]

InitShare == Init

\* Lines 299-302: the share URL of the current render goes to the clipboard.
CopyShareLink ==
    /\ uiPc = "mounted" /\ shPc = "none"
    /\ shUrl' = shareUrl(selectedCountry, selectedReform)
    /\ shPc' = "copied"
    /\ UNCHANGED <<shCountry, shReform, phVars, agVars, rnVars, lvVars>>
    /\ UNCHANGED <<simVars, rgVars, cmpVars, uiVars, rpVars, rtVars>>

\* Lines 247-264 in a fresh dashboard opened at the copied URL: the defaults
\* of useState, then the effect that reads the two parameters.
OpenShared ==
    /\ shPc = "copied"
    /\ LET countryParam == UrlGet(shUrl, "country")
           scenarioParam == UrlGet(shUrl, "scenario")
       IN /\ shCountry' = IF Truthy(COUNTRY_DATA, countryParam)
                          THEN countryParam ELSE "brazil"
          /\ shReform' = IF Truthy(REFORMS, scenarioParam)
                         THEN scenarioParam ELSE "none"
    /\ shPc' = "opened"
    /\ UNCHANGED <<shUrl, phVars, agVars, rnVars, lvVars>>
    /\ UNCHANGED <<simVars, rgVars, cmpVars, uiVars, rpVars, rtVars>>

NextShare ==
    \/ /\ uiPc = "unmounted"
       /\ \E cp \in UrlCountryParams, sp \in UrlScenarioParams : Mount(cp, sp)
    \/ /\ uiPc = "mounted" /\ shPc = "none"
       /\ \E c \in DropdownOptions : ChangeCountry(c)
    \/ /\ uiPc = "mounted" /\ shPc = "none"
       /\ \E k \in OwnKeys(REFORMS) : ClickScenario(k)
    \/ CopyShareLink
    \/ OpenShared

SpecShare == InitShare /\ [][NextShare]_vars

(***************************************************************************)
(* Properties of simulateDebtPath                                          *)
(***************************************************************************)
KnownCountry == dataKind = "own"
KnownReform == refKind = "own"
ValidCall == KnownCountry /\ KnownReform /\ years > 0 /\ nSims > 0

PercentileFields(pt) == <<pt.p5, pt.p10, pt.p25, pt.median, pt.p75, pt.p90, pt.p95>>

\* C1: a run with a known country and reform, a horizon H > 0 and a trial
\* count > 0 returns exactly H + 1 points, the point at index k (from 0)
\* carrying the year 2024 + k.
C1_PointsAndYears ==
    (pc = "returned" /\ ValidCall) =>
        /\ Len(result) = years + 1
        /\ \A k \in 1..Len(result) : result[k].year = 2024 + (k - 1)

C1_Witness ==
    /\ pc = "returned" /\ ValidCall /\ years = MaxYears /\ nSims = MaxSims
    /\ shockSource = "typical"
    /\ Len(result) >= 3

\* C2: every projection point of a run with a known country and reform and
\* at least one trial has p5 <= p10 <= p25 <= median <= p75 <= p90 <= p95,
\* each within [0, 300] (0..3000 tenths), whatever the draws.
C2_PercentilesOrderedInRange ==
    (KnownCountry /\ KnownReform /\ nSims >= 1) =>
        \A k \in 1..Len(result) :
            LET f == PercentileFields(result[k])
            IN /\ \A j \in 1..6 : f[j] <= f[j + 1]
               /\ \A j \in 1..7 : 0 <= f[j] /\ f[j] <= 3000

C2_Witness ==
    /\ pc = "returned" /\ KnownCountry /\ KnownReform /\ nSims >= 3
    /\ \E k \in 1..Len(result) : result[k].p25 < result[k].median

C4_ZeroShocksDeterministic ==
    (shockSource = "zero" /\ KnownCountry /\ KnownReform /\ nSims >= 1) =>
        \A k \in 1..Len(result) :
            LET det == TrialPath(country, reform, years,
                                 [y \in 1..years |-> <<0, 0, 0>>])
                f == PercentileFields(result[k])
            IN \A j \in 1..7 : f[j] = Round1(det[k])

C4_Witness ==
    /\ pc = "returned" /\ shockSource = "zero" /\ KnownCountry /\ KnownReform
    /\ nSims = MaxSims /\ years = MaxYears
    /\ result[1].median # result[Len(result)].median

HasNaN(pt) == \E j \in 1..7 : PercentileFields(pt)[j] = NaN

\* C5: a call whose countryId is not a key of the country table is rejected
\* with InvalidCountry before any simulation work: it never returns, what it
\* throws is InvalidCountry, no draw is made and no trial is started.
C5_InvalidCountryRejected ==
    (pc # "idle" /\ ~KnownCountry) =>
        /\ pc # "returned"
        /\ pc = "thrown" => error = "InvalidCountry"
        /\ nDraws = 0 /\ path = <<>> /\ allPaths = <<>>

\* C6: a call with a known country and a scenarioId that is not a key of the
\* reform table is rejected with InvalidScenario before any simulation work:
\* it never returns, what it throws is InvalidScenario, and no draw is made
\* nor any trial started.
C6_InvalidScenarioRejected ==
    (pc # "idle" /\ KnownCountry /\ ~KnownReform) =>
        /\ pc # "returned"
        /\ pc = "thrown" => error = "InvalidScenario"
        /\ nDraws = 0
        /\ pc = "yearLoop" =>
              /\ growth = COUNTRY_DATA[country].growth
              /\ inflation = COUNTRY_DATA[country].inflation
              /\ pb = COUNTRY_DATA[country].pb

\* C7: a call with horizonYears <= 0 or trials <= 0 is rejected with
\* InvalidParameter and returns no projection series; no point with an
\* undefined or not-a-number percentile is ever produced.
C7_InvalidParameterRejected ==
    (pc # "idle" /\ KnownCountry /\ KnownReform /\ (years <= 0 \/ nSims <= 0)) =>
        /\ pc # "returned"
        /\ pc = "thrown" => error = "InvalidParameter"
        /\ \A k \in 1..Len(result) : ~HasNaN(result[k])

\* The recursion of one year with no reform term at all: the unadjusted
\* primary balance (plus the regime-2 adjustment), the regime's base rate plus
\* the debt premium under the 1.5 floor, and growth without a boost.
NoReformDebt(data, d, g, i, p) ==
    LET params == REGIME_PARAMS[data.category]
        regime == Regime(d, params.thresholds)
    IN DebtDynamics(d,
                    Max(1500, params.baseRates[regime + 1]
                              + ratePremium(params, regime, d)),
                    MulDiv(One + g + params.growthAdj[regime + 1], One + i, One),
                    p + (IF regime = 2 THEN 300 ELSE 0))

\* C9: the "none" preset has pbImprove = growthBoost = rateReduction = 0, and
\* every year simulated under it is the recursion without any reform term.
C9_NoneAppliesNoReform ==
    /\ REFORMS["none"] = [pbImprove |-> 0, growthBoost |-> 0, rateReduction |-> 0]
    /\ [][(pc = "yearLoop" /\ t' = t + 1 /\ reform = "none" /\ KnownCountry) =>
            debt' = NoReformDebt(COUNTRY_DATA[country], debt,
                                 growth', inflation', pb')]_vars

C9_Witness ==
    /\ pc = "yearLoop" /\ reform = "none" /\ KnownCountry
    /\ t = 3 /\ shockSource = "typical"
    /\ path[3] # path[1]

\* The section 4.2 formulas applied once by hand to a baseline row, with the
\* regime-2 parameters of em_ig written out: base rate 7.0, sensitivity 0.05
\* on the debt above 55, growth adjustment -0.3, forced adjustment +0.3, no
\* shock and no reform.  In thousandths of a percent.
HandYear1(base) ==
    LET g1 == (7 * base.growth + 3 * base.growth) \div 10
        i1 == Max(0, (7 * base.inflation + 3 * base.inflation) \div 10)
        p1 == (7 * base.pb + 3 * base.pb) \div 10
        r == Max(1500, 7000 + Max(0, ((base.debt2024 - 55000) * 50) \div 1000))
        onePlusGNom == MulDiv(One + g1 - 300, One + i1, One)
        d1 == MulDiv(base.debt2024, One + r, onePlusGNom) - (p1 + 300)
    IN Max(0, Min(300000, d1))

\* C13: for a country with baseline debt 87.6 and classification em_ig
\* (thresholds [55, 70]), under zero shocks and the "none" reform, year 1 is
\* simulated in regime 2 and the year-1 median equals, to one decimal, the
\* value the section 4.2 formulas give by hand with the regime-2 parameters.
C13_Year1ByHand ==
    (/\ KnownCountry /\ reform = "none" /\ shockSource = "zero" /\ nSims >= 1
     /\ COUNTRY_DATA[country].debt2024 = 87600
     /\ COUNTRY_DATA[country].category = "em_ig") =>
        /\ REGIME_PARAMS["em_ig"].thresholds = <<55000, 70000>>
        /\ Regime(COUNTRY_DATA[country].debt2024,
                  REGIME_PARAMS["em_ig"].thresholds) = 2
        /\ \A j \in 1..Len(allPaths) :
              Len(allPaths[j]) >= 2 => allPaths[j][2] = HandYear1(COUNTRY_DATA[country])
        /\ Len(result) >= 2 =>
              result[2].median = (HandYear1(COUNTRY_DATA[country]) + 50) \div 100

\* Brazil's year-1 median is the 88.9 of the hand calculation.
C13_Witness ==
    /\ pc = "returned" /\ country = "brazil" /\ reform = "none"
    /\ shockSource = "zero" /\ nSims = MaxSims /\ years >= 1
    /\ result[2].median = 889

\* C15: every trial's trajectory has exactly years + 1 values and starts
\* with the country's baseline debt, so all seven percentiles of the year-0
\* point equal the baseline debt rounded to one decimal, whatever the
\* scenario, the draws and the trial count.
C15_TrajectoryFromBaseline ==
    ValidCall =>
        LET baseline == COUNTRY_DATA[country].debt2024
        IN /\ pc = "yearLoop" => (Len(path) = t /\ path[1] = baseline)
           /\ \A j \in 1..Len(allPaths) :
                 Len(allPaths[j]) = years + 1 /\ allPaths[j][1] = baseline
           /\ Len(result) >= 1 =>
                 /\ result[1].year = 2024
                 /\ \A f \in 1..7 :
                       PercentileFields(result[1])[f] = (baseline + 50) \div 100

\* A run of several trials whose paths spread apart after year 0.
C15_Witness ==
    /\ pc = "returned" /\ ValidCall /\ nSims = MaxSims /\ reform = "aggressive"
    /\ shockSource = "typical"
    /\ result[1].p5 = result[1].p95
    /\ result[2].p5 < result[2].p95

\* C16: each trial starts with debt, growth, inflation and primary balance
\* reset to the baseline, and its trajectory is a function of the country,
\* the reform and its own draws alone: the path under way, the path just
\* finished and, at the return, every path of the ensemble equal TrialPath
\* of that trial's draws, whatever the other trials drew.
C16_TrialsIndependent ==
    (KnownCountry /\ KnownReform) =>
        LET base == COUNTRY_DATA[country]
        IN /\ (pc = "yearLoop" /\ t = 1) =>
                 /\ debt = base.debt2024 /\ growth = base.growth
                 /\ inflation = base.inflation /\ pb = base.pb
           /\ pc = "yearLoop" =>
                 /\ Len(draws) = t - 1
                 /\ path = TrialPath(country, reform, t - 1, draws)
           /\ Len(allDraws) = Len(allPaths)
           /\ (pc = "simLoop" /\ allPaths # <<>>) =>
                 allPaths[Len(allPaths)] =
                     TrialPath(country, reform, years, allDraws[Len(allPaths)])
           /\ pc = "returned" =>
                 \A j \in 1..Len(allPaths) :
                     allPaths[j] = TrialPath(country, reform, years, allDraws[j])

\* Trial 3 drew what trial 1 drew and trial 2 drew otherwise: paths 1 and 3
\* agree and path 2 differs.
C16_Witness ==
    /\ pc = "returned" /\ KnownCountry /\ KnownReform /\ years = MaxYears
    /\ Len(allPaths) >= 3
    /\ allDraws[1] = allDraws[3] /\ allDraws[2] # allDraws[1]
    /\ allPaths[1] = allPaths[3] /\ allPaths[2] # allPaths[1]

\* C19: in year t of a trial the regime, the debt premium of the rate and
\* the base of the recursion are all taken from the prior-year debt (the last
\* value of the path), and the year's debt is what these give; it is
\* appended only then.
C19_PriorYearDebt ==
    [][(pc = "yearLoop" /\ t' = t + 1 /\ KnownCountry /\ KnownReform) =>
          LET data == COUNTRY_DATA[country]
              params == REGIME_PARAMS[data.category]
              ref == REFORMS[reform]
              prior == path[Len(path)]
              regime == Regime(prior, params.thresholds)
              premium == Max(0, ((prior - params.thresholds[1])
                                 * params.rateSens[regime + 1]) \div 1000)
              r == Max(1500, baseR(params, ref, t, regime) + premium)
              onePlusGNom == NominalGrowthFactor(params, ref, regime,
                                                 growth', inflation')
          IN /\ debt = prior
             /\ debt' = DebtDynamics(prior, r, onePlusGNom,
                                     adjustedPb(ref, t, regime, pb'))
             /\ path' = Append(path, debt')]_vars

\* Year 1 moved the debt into another regime, and year 2 has been simulated
\* from there.
C19_Witness ==
    /\ pc = "yearLoop" /\ KnownCountry /\ KnownReform /\ Len(path) = 3
    /\ LET th == REGIME_PARAMS[COUNTRY_DATA[country].category].thresholds
       IN Regime(path[1], th) # Regime(path[2], th)

(***************************************************************************)
(* Properties of the regime rule                                           *)
(***************************************************************************)
\* C8: the simulator and the fiscal gap calculation both select regime 0 for
\* debt < t0, regime 1 for t0 <= debt < t1 and regime 2 for debt >= t1, so a
\* debt equal to t0 is in regime 1 and a debt equal to t1 is in regime 2.
C8_HalfOpenRegimes ==
    LET th == REGIME_PARAMS[rgCategory].thresholds
        inBand(r) == /\ r \in {0, 1, 2}
                     /\ (r = 0) = (rgDebt < th[1])
                     /\ (r = 1) = (th[1] <= rgDebt /\ rgDebt < th[2])
                     /\ (r = 2) = (rgDebt >= th[2])
    IN /\ rgSim # -1 => inBand(rgSim)
       /\ rgFiscal # -1 => inBand(rgFiscal)

C8_Witness ==
    /\ rgDebt = REGIME_PARAMS[rgCategory].thresholds[1]
    /\ rgSim = 1 /\ rgFiscal = 1

(***************************************************************************)
(* Properties of the scenario comparison                                   *)
(***************************************************************************)
MedianOrdering ==
    /\ cmpMedian["aggressive"] <= cmpMedian["moderate"]
    /\ cmpMedian["moderate"] <= cmpMedian["mild"]
    /\ cmpMedian["mild"] <= cmpMedian["none"]

\* A baseline primary deficit of at least one percent of GDP.
MeaningfullyNegativePb(c) == COUNTRY_DATA[c].pb <= -1000

SelectedInTable == selectedCountry \in DOMAIN COUNTRY_DATA

\* C11: the fiscal gap calculation takes g_nom = (1 + growth/100) *
\* (1 + inflation/100) - 1, the regime of the baseline debt by the simulator's
\* threshold rule, r = baseRates[regime] with no debt premium and no reform
\* adjustment, pb* = ((r - g_nom) / (1 + g_nom)) * debt and gap = pb* - pb;
\* the result is the same whatever scenario is selected.
C11_FiscalGapFormula ==
    (uiPc = "mounted" /\ SelectedInTable) =>
        LET base == COUNTRY_DATA[selectedCountry]
            params == REGIME_PARAMS[base.category]
            gNom == MulDiv(One + base.growth, One + base.inflation, One) - One
            regime == Regime(base.debt2024, params.thresholds)
            r == params.baseRates[regime + 1]
            pbStar == MulDiv(r - gNom, base.debt2024, One + gNom)
        IN /\ debtStabilizingPB = pbStar
           /\ fiscalGap = pbStar - base.pb

\* A scenario with a rate reduction is selected, for a country whose debt
\* is above t0 (a debt premium would apply in the simulator).
C11_Witness ==
    /\ uiPc = "mounted" /\ selectedCountry = "japan"
    /\ selectedReform = "aggressive"
    /\ fiscalGap = -626

\* A primary deficit of at least three percent of GDP.
DeeplyNegativePb(c) == COUNTRY_DATA[c].pb <= -3000
\* A primary surplus of at least one percent of GDP.
LargeSurplus(c) == COUNTRY_DATA[c].pb >= 1000
\* The band the dashboard itself shows as neutral: within 0.5 of zero.
NearZero == 500

SelectedThresholds == REGIME_PARAMS[COUNTRY_DATA[selectedCountry].category].thresholds

C14_PureFunctionOfInputs ==
    rpPc = "twice" => rpFirst = rpSecond

(***************************************************************************)
(* Properties of the dashboard                                             *)
(***************************************************************************)
GroupLabels == {"Developed", "Japan", "EM Investment Grade", "EM High Yield",
                "Frontier"}

OptionsInGroup(label) == {c \in DropdownOptions : OptionGroup(c) = label}

C18_SelectionAlwaysKnown ==
    /\ selectedCountry \in DOMAIN COUNTRY_DATA
    /\ selectedReform \in DOMAIN REFORMS
    /\ \A call \in simCalls :
          call[1] \in DOMAIN COUNTRY_DATA /\ call[2] \in DOMAIN REFORMS

(***************************************************************************)
(* Properties of the interest rate                                         *)
(***************************************************************************)
\* C20: the effective rate of a year is at least 1.5 percent for every
\* classification, reform preset, regime, year and prior debt level, and the
\* debt premium added to the base rate is never negative, being zero
\* whenever the prior debt is at or below t0.
C20_RateFloor ==
    rtRate # -1 =>
        /\ rtRate >= 1500
        /\ rtPremium >= 0
        /\ rtDebt <= REGIME_PARAMS[rtCategory].thresholds[1] => rtPremium = 0

\* The floor binds: the base rate less the full rate reduction is zero and
\* the debt is below t0, so there is no premium.
C20_Witness ==
    /\ rtCategory = "developed" /\ rtReform = "aggressive" /\ rtYear = 10
    /\ rtDebt < REGIME_PARAMS[rtCategory].thresholds[1]
    /\ rtRegime = 0 /\ rtPremium = 0 /\ rtRate = 1500
    /\ baseR(REGIME_PARAMS[rtCategory], REFORMS[rtReform], rtYear, rtRegime) = 0

(***************************************************************************)
(* Properties of the reform phase-in                                       *)
(***************************************************************************)
\* C21: in year t the primary balance improvement applied is
\* pbImprove * min(t, 7) / 7 and the rate reduction applied is
\* rateReduction * min(t, 4) / 4 (to the thousandth of a point), so each is
\* non-decreasing in t, below its full value before year 7 (year 4), at its
\* full value from then on, while growthBoost is applied in full every year.
C21_LinearPhaseIn ==
    phOut # <<>> =>
        LET ref == REFORMS[phIn.reform]
            data == COUNTRY_DATA[phIn.country]
            yr == phIn.year
            pbNow == phOut.now.pb
            cutNow == phOut.now.cut
        IN /\ 7 * pbNow <= ref.pbImprove * Min(yr, 7)
           /\ ref.pbImprove * Min(yr, 7) < 7 * pbNow + 7
           /\ pbNow <= phOut.next.pb
           /\ yr >= 7 => (pbNow = ref.pbImprove /\ phOut.next.pb = ref.pbImprove)
           /\ (yr < 7 /\ ref.pbImprove > 0) => pbNow < ref.pbImprove
           /\ 4 * cutNow <= ref.rateReduction * Min(yr, 4)
           /\ ref.rateReduction * Min(yr, 4) < 4 * cutNow + 4
           /\ cutNow <= phOut.next.cut
           /\ yr >= 4 => (cutNow = ref.rateReduction
                         /\ phOut.next.cut = ref.rateReduction)
           /\ (yr < 4 /\ ref.rateReduction > 0) => cutNow < ref.rateReduction
           /\ phOut.now.gReal = data.growth + ref.growthBoost
                  + REGIME_PARAMS[data.category].growthAdj[phIn.regime + 1]
           /\ phOut.next.gReal = phOut.now.gReal

\* Mild reform in year 3: 0.75 * 3/7 = 0.321 and 0.5 * 3/4 = 0.375 applied,
\* the growth boost of 0.15 in full.
C21_Witness ==
    /\ phOut # <<>> /\ phIn.reform = "mild" /\ phIn.year = 3
    /\ phIn.country = "brazil" /\ phIn.regime = 2
    /\ phOut.now.pb = 321 /\ phOut.now.cut = 375
    /\ phOut.now.gReal = 3000 - 300 + 150

(***************************************************************************)
(* Properties of the percentile aggregation                                *)
(***************************************************************************)
\* The rounding of the ensemble value of rank idx (counted from 0) in
\* ascending order: fewer than idx + 1 values lie below it and at least
\* idx + 1 values are at most it.
IsRanked(values, idx, reported) ==
    \E j \in DOMAIN values :
        /\ reported = Round1(values[j])
        /\ Cardinality({k \in DOMAIN values : values[k] < values[j]}) <= idx
        /\ Cardinality({k \in DOMAIN values : values[k] <= values[j]}) > idx

PercentileRanks == <<5, 10, 25, 50, 75, 90, 95>>

\* C22: each reported percentile p is the element at index
\* floor(p/100 * (n-1)) of the ascending-sorted trial values of the year,
\* rounded to one decimal; the index lies in 0..n-1, so the value is the
\* rounding of an actual ensemble value.
C22_NearestRank ==
    agPoint # <<>> =>
        LET n == Len(agValues)
            fields == PercentileFields(agPoint)
        IN \A f \in 1..7 :
              LET idx == (PercentileRanks[f] * (n - 1)) \div 100
              IN /\ idx \in 0..(n - 1)
                 /\ IsRanked(agValues, idx, fields[f])

\* Twenty-one values in descending trial order: the seven percentiles are
\* the 2nd, 3rd, 6th, 11th, 16th, 19th and 20th smallest.
C22_Witness ==
    /\ agPoint # <<>> /\ Len(agValues) = 21
    /\ agValues = Ensemble(21, "descending", 45650)
    /\ PercentileFields(agPoint) =
          <<Round1(45650 + 1370 * 2), Round1(45650 + 1370 * 3),
            Round1(45650 + 1370 * 6), Round1(45650 + 1370 * 11),
            Round1(45650 + 1370 * 16), Round1(45650 + 1370 * 19),
            Round1(45650 + 1370 * 20)>>

(***************************************************************************)
(* Properties of the macro step                                            *)
(***************************************************************************)
\* C23: in every trial and every year of a run for a listed country, the
\* inflation state is the mean reversion plus shock floored at 0, hence never
\* negative and 1 + inflation/100 >= 1 in the nominal growth of the year,
\* while growth and the primary balance are the mean reversion plus shock
\* with no floor.
C23_InflationFloor ==
    [][(pc = "yearLoop" /\ t <= years /\ KnownCountry) =>
          LET data == COUNTRY_DATA[country]
              vol == volatility[data.category]
              z == draws'[Len(draws')]
              rawInflation == MeanRevert(data.inflation, inflation, z[2],
                                         vol.inflation)
          IN /\ inflation >= 0
             /\ inflation' = IF rawInflation < 0 THEN 0 ELSE rawInflation
             /\ inflation' >= 0 /\ One + inflation' >= One
             /\ growth' = MeanRevert(data.growth, growth, z[1], vol.growth)
             /\ pb' = MeanRevert(data.pb, pb, z[3], vol.pb)]_vars

\* After a first year of tail shocks the mean reversion of inflation is
\* negative and inflation is held at 0, while growth and the primary balance
\* have gone negative.
C23_Witness ==
    /\ pc = "yearLoop" /\ KnownCountry /\ KnownReform /\ Len(draws) = 1
    /\ LET data == COUNTRY_DATA[country]
       IN MeanRevert(data.inflation, data.inflation, draws[1][2],
                     volatility[data.category].inflation) < 0
    /\ inflation = 0 /\ growth < 0 /\ pb < 0

(***************************************************************************)
(* Properties of the order of trials and aggregation                       *)
(***************************************************************************)
\* C24: within a run with positive horizon and trial count for a listed
\* country and preset, whenever a year's percentiles are computed every one
\* of the nSims trials has finished (its trajectory has years + 1 values),
\* none is in progress, and the point is computed over the values of all
\* nSims trajectories at that year.
C24_AggregateAfterAllTrials ==
    [][(pc = "aggLoop" /\ result' # result /\ ValidCall) =>
          /\ sim = nSims
          /\ Len(allPaths) = nSims
          /\ \A k \in 1..Len(allPaths) : Len(allPaths[k]) = years + 1
          /\ Len(Column(allPaths, t)) = nSims
          /\ \A k \in 1..nSims : Column(allPaths, t)[k] = allPaths[k][t + 1]
          /\ result' = Append(result, ProjectionPoint(allPaths, t))]_vars

\* The last year's point of a run of several trials has been computed.
C24_Witness ==
    /\ pc = "aggLoop" /\ ValidCall /\ nSims >= 2 /\ years >= 1
    /\ Len(result) = years + 1 /\ Len(allPaths) = nSims

(***************************************************************************)
(* Properties of randn                                                     *)
(***************************************************************************)
\* C25: randn never takes the logarithm of zero: a uniform draw that is
\* exactly zero is discarded and drawn again, so the loop for u is left only
\* with u nonzero, the loop for v only with v nonzero, and every returned
\* draw is a finite value computed from two nonzero uniforms.
C25_NoLogOfZero ==
    /\ rnPc \in {"whileV", "compute", "returned"} => rnU # 0
    /\ rnPc \in {"compute", "returned"} => rnV # 0
    /\ rnPc = "returned" =>
          /\ rnZ = (Radius[rnU] * Cosine[rnV + 1]) \div 1000
          /\ rnZ >= -RandnMax /\ rnZ <= RandnMax

\* A draw returned after zero draws were discarded.
C25_Witness ==
    /\ rnPc = "returned" /\ rnZeros = MaxRedraws
    /\ rnU = 1 /\ rnV = 8 /\ rnZ = -235

(***************************************************************************)
(* Termination                                                             *)
(***************************************************************************)
\* The run has returned after nSims * years recursion steps (three draws
\* each) and years + 1 aggregation steps.
RunComplete ==
    /\ pc = "returned"
    /\ nDraws = 3 * nSims * years
    /\ Len(allPaths) = nSims
    /\ \A k \in 1..Len(allPaths) : Len(allPaths[k]) = years + 1
    /\ Len(result) = years + 1

\* C26: a run with positive horizon and trial count for a listed country and
\* preset, once entered, returns after exactly nSims * years recursion steps
\* followed by years + 1 aggregation steps, however many zero uniform draws
\* are re-sampled on the way, provided each year's draws do complete.
C26_RunTerminates ==
    (pc = "simLoop" /\ sim = 0 /\ ValidCall) ~> RunComplete

\* A run of two trials over two years that returned after an odd number of
\* discarded zero draws.
C26_Witness ==
    /\ RunComplete /\ ValidCall /\ nSims = 2 /\ years = 2 /\ lvResampled

(***************************************************************************)
(* Frame properties                                                        *)
(***************************************************************************)
\* C27: a run leaves the reference tables and the trajectories as they are:
\* every trial, the first and the later ones alike, starts from the values
\* the country's table entry holds; a trajectory, once finished, is only
\* appended to the ensemble and never altered or reordered afterwards; and
\* each aggregation step computes its point from a sorted copy of the year's
\* values, leaving every trajectory unchanged.
C27_TablesAndPathsUnchanged ==
    [][/\ (allPaths' # allPaths) =>
             /\ pc = "yearLoop" /\ pc' = "simLoop"
             /\ allPaths' = Append(allPaths, path)
       /\ pc = "aggLoop" =>
             /\ allPaths' = allPaths
             /\ (result' # result /\ allPaths # <<>>) =>
                   result' = Append(result, ProjectionPoint(allPaths', t))
       /\ (pc = "simLoop" /\ pc' = "yearLoop" /\ KnownCountry) =>
             /\ debt' = COUNTRY_DATA[country].debt2024
             /\ growth' = COUNTRY_DATA[country].growth
             /\ inflation' = COUNTRY_DATA[country].inflation
             /\ pb' = COUNTRY_DATA[country].pb]_vars

\* Aggregation has gone through every year of an ensemble whose trajectories
\* are not in ascending order at the last year, and they are still what the
\* trials produced.
C27_Witness ==
    /\ pc = "returned" /\ ValidCall /\ Len(allPaths) >= 2
    /\ allPaths[1][years + 1] > allPaths[2][years + 1]
    /\ \A k \in 1..Len(allPaths) :
          allPaths[k] = TrialPath(country, reform, years, allDraws[k])

(***************************************************************************)
(* Shape of the reference tables                                           *)
(***************************************************************************)
\* C28: every classification's regime parameters have exactly two
\* thresholds with t0 < t1 and three base rates, three rate sensitivities
\* and three growth adjustments; every country's classification has an entry
\* in the regime parameter table and in the volatility table; so for a listed
\* country and a regime in {0, 1, 2} every parameter looked up exists.
C28_TablesWellFormed ==
    phIn # <<>> =>
        /\ \A cat \in DOMAIN REGIME_PARAMS :
              LET params == REGIME_PARAMS[cat]
              IN /\ DOMAIN params.thresholds = 1..2
                 /\ params.thresholds[1] < params.thresholds[2]
                 /\ DOMAIN params.baseRates = 1..3
                 /\ DOMAIN params.rateSens = 1..3
                 /\ DOMAIN params.growthAdj = 1..3
        /\ \A c \in DOMAIN COUNTRY_DATA :
              /\ COUNTRY_DATA[c].category \in DOMAIN REGIME_PARAMS
              /\ COUNTRY_DATA[c].category \in DOMAIN volatility
              /\ DOMAIN volatility[COUNTRY_DATA[c].category]
                    = {"growth", "inflation", "pb"}
        /\ LET cat == COUNTRY_DATA[phIn.country].category
           IN /\ Lookup(REGIME_PARAMS, cat) = "own"
              /\ Lookup(volatility, cat) = "own"
              /\ phIn.regime + 1 \in DOMAIN REGIME_PARAMS[cat].baseRates
              /\ phIn.regime + 1 \in DOMAIN REGIME_PARAMS[cat].rateSens
              /\ phIn.regime + 1 \in DOMAIN REGIME_PARAMS[cat].growthAdj

\* The parameters of the highest regime of a frontier country have been
\* looked up and used.
C28_Witness ==
    /\ phOut # <<>> /\ phIn.regime = 2
    /\ COUNTRY_DATA[phIn.country].category = "frontier"
    /\ phOut.now.gReal = COUNTRY_DATA[phIn.country].growth
          + REGIME_PARAMS["frontier"].growthAdj[3] + REFORMS[phIn.reform].growthBoost

(***************************************************************************)
(* Properties of the share link                                            *)
(***************************************************************************)
\* C29: for every selection the dashboard can render, the share URL built
\* from it carries country=<selected country> and scenario=<selected
\* scenario>, and a dashboard mounted with that URL's parameters has exactly
\* that selection.
C29_ShareRoundTrip ==
    /\ shPc \in {"copied", "opened"} =>
          /\ Len(shUrl) = 8
          /\ SubSeq(shUrl, 2, 4) = <<"country", "=", selectedCountry>>
          /\ SubSeq(shUrl, 5, 8) = <<"&", "scenario", "=", selectedReform>>
    /\ shPc = "opened" =>
          /\ shCountry = selectedCountry
          /\ shReform = selectedReform

\* A selection away from both defaults has made the round trip.
C29_Witness ==
    /\ shPc = "opened" /\ selectedCountry = "india" /\ selectedReform = "aggressive"
    /\ shCountry = "india" /\ shReform = "aggressive"

====
